---- MODULE Spec2Model ----
(***************************************************************************)
(* Model of the SO-Against-Invoice workflow of                             *)
(* src/modules/so_against_invoice/routes.py: the persisted Document /      *)
(* Line Item aggregate, the Series Cache and the handlers create,          *)
(* get_so_series, validate_so_number, fetch_so_details, validate_item,     *)
(* save_so_details and post_invoice, each taken as one atomic request.     *)
(*                                                                         *)
(* JSON scalars that the handlers only copy (series codes, order numbers,  *)
(* item codes, quantities) are opaque strings; an unset column is "None".  *)
(* Text the handlers build (the ERP result identifier, the posting error)  *)
(* is a sequence of one-character or literal string tokens, built the way  *)
(* the f-strings build it; the empty sequence is the unset column.         *)
(*                                                                         *)
(* In Spec the persistence layer works: db.session.commit() succeeds, so   *)
(* the state after an action is the committed state.  The ERP answers as   *)
(* its interface says: a 200/201 answer carries a numeric DocNum.  In      *)
(* SpecFault the persistence layer can also raise inside save_so_details   *)
(* and get_so_series.                                                      *)
(*                                                                         *)
(* SpecOffline is the wizard run with the ERP gateway unreachable, SpecConc *)
(* two workers whose requests overlap.  SpecMigrate and SpecMigrateFault   *)
(* model src/migrate_database.py and src/mysql_migration_consolidated.py   *)
(* on the table serial_item_transfer_items.                                *)
(***************************************************************************)
EXTENDS Integers, Sequences, FiniteSets, TLC

\* ------------------------------------------------------------------ bounds
MaxDocs == 2
MaxCalls == 4
\* rows of serial_item_transfer_items, and runs of the migration scripts
MaxRows == 1
MaxRuns == 2

\* ------------------------------------------------------------------ values
None == "None"
NoText == << >>
\* a JSON field absent from the request body (data.get(...) is None)
NoJson == {}

DocIds == 1..MaxDocs

\* current_user of a request: id and role (flask_login)
Users == {1, 2}
RoleOf(u) == IF u = 1 THEN "user" ELSE "admin"

\* routes.py:122, 455: current_user.role not in ['admin', 'manager']
PrivilegedRoles == {"admin", "manager"}

\* ---- text helpers -------------------------------------------------
DigitChar == <<"0", "1", "2", "3", "4", "5", "6", "7", "8", "9">>

RECURSIVE Str(_)
\* str(n) for a non-negative integer: its decimal digits
Str(n) == IF n < 10 THEN <<DigitChar[n + 1]>>
          ELSE Str(n \div 10) \o <<DigitChar[(n % 10) + 1]>>

RECURSIVE ZeroFill(_, _)
ZeroFill(s, w) == IF Len(s) >= w THEN s ELSE ZeroFill(<<"0">> \o s, w)

\* the format spec {n:06d}: decimal digits, left-padded with zeros to width 6
Format06d(n) == ZeroFill(Str(n), 6)

\* ---- request inputs ------------------------------------------------
\* series_info of save_so_details
SeriesInfos ==
  { [series |-> "11", series_name |-> "Primary"],
    [series |-> "243", series_name |-> "SO2526"] }

MockLines ==
  << [LineNum |-> "0", ItemCode |-> "IPhone",
      ItemDescription |-> "12 Series 8GB RAM/250 GB ROM Black",
      Quantity |-> "10", WarehouseCode |-> "7000-FG"],
     [LineNum |-> "1", ItemCode |-> "RedmiNote4",
      ItemDescription |-> "8GBRAM/250GBROM Black",
      Quantity |-> "10", WarehouseCode |-> "7000-FG"] >>

\* mutant: the mock order carries a fixed DocEntry
MockOrder_Fixed(doc_entry) ==
  [ DocEntry |-> "1248", CardCode |-> "3D SEALS",
    CardName |-> "3D SEALS PRIVATE LIMITED",
    Address |-> "Sai Indu Tower, Mumbai City-400078, IN",
    DocumentLines |-> MockLines ]

\* the offline order of fetch_so_details
MockOrder(doc_entry) ==
  [ DocEntry |-> doc_entry, CardCode |-> "3D SEALS",
    CardName |-> "3D SEALS PRIVATE LIMITED",
    Address |-> "Sai Indu Tower, Mumbai City-400078, IN",
    DocumentLines |-> MockLines ]

\* so_details of save_so_details: the mock order, a one-line order of another
\* customer, and an order without lines
Snapshots ==
  { [so_number |-> "SO-100", doc_entry |-> "1248", order |-> MockOrder("1248")],
    [so_number |-> "SO-7", doc_entry |-> "31",
     order |-> [ DocEntry |-> "31", CardCode |-> "C20000",
                 CardName |-> "Norm Thompson", Address |-> "Main St 1",
                 DocumentLines |->
                   << [LineNum |-> "0", ItemCode |-> "A00001",
                       ItemDescription |-> "Printer", Quantity |-> "3",
                       WarehouseCode |-> "01"] >> ]],
    [so_number |-> "SO-9", doc_entry |-> "40",
     order |-> [ DocEntry |-> "40", CardCode |-> "C30000",
                 CardName |-> "Empty Order Ltd", Address |-> "None",
                 DocumentLines |-> << >> ]] }

\* ---- the table of the migration scripts -----------------------------
\* A cell is {} for NULL and {v} for the value v.  A column definition is its
\* type, whether it takes NULL, and its DEFAULT ({} when none is given).
SqlNull == {}

\* COALESCE(x, d)
Coalesce(x, d) == IF x = SqlNull THEN d ELSE CHOOSE v \in x : TRUE

ColumnDef(type, null, default) == [type |-> type, null |-> null, default |-> default]

\* migrate_database.py:86-95, mysql_migration_consolidated.py:103-112
ColumnsToAdd ==
  << [name |-> "is_serial_managed", def |-> ColumnDef("BOOLEAN", FALSE, {FALSE})],
     [name |-> "is_batch_managed", def |-> ColumnDef("BOOLEAN", FALSE, {FALSE})],
     [name |-> "item_type", def |-> ColumnDef("VARCHAR(20)", FALSE, {"serial"})],
     [name |-> "expected_quantity", def |-> ColumnDef("INT", FALSE, {1})],
     [name |-> "scanned_quantity", def |-> ColumnDef("INT", FALSE, {0})],
     [name |-> "completion_status", def |-> ColumnDef("VARCHAR(20)", FALSE, {"pending"})],
     [name |-> "parent_item_code", def |-> ColumnDef("VARCHAR(50)", TRUE, {})],
     [name |-> "line_group_id", def |-> ColumnDef("VARCHAR(50)", TRUE, {})] >>

TargetColumns == { ColumnsToAdd[i].name : i \in 1..Len(ColumnsToAdd) }

\* the columns of the table that the scripts read: serial_number
\* (migrate_database.py:128, 144) and quantity (160)
BaseDefs(serial_null) ==
  [ c \in {"serial_number", "quantity"} |->
      IF c = "serial_number" THEN ColumnDef("VARCHAR(100)", serial_null, {})
      ELSE ColumnDef("INT", TRUE, {}) ]

\* migrate_database.py:170-174
IndexesOfMigrateDatabase ==
  { "idx_serial_item_transfer_items_is_serial_managed",
    "idx_serial_item_transfer_items_completion_status",
    "idx_serial_item_transfer_items_item_type" }

\* mysql_migration_consolidated.py:205-210
IndexesOfConsolidated ==
  { "idx_serial_items_is_serial_managed", "idx_serial_items_completion_status",
    "idx_serial_items_item_type", "idx_serial_items_parent_item_code" }

\* the table before any migration, without rows
BaseTable == [defs |-> BaseDefs(FALSE), indexes |-> {}, rows |-> << >>]

\* no script has run
NoRun ==
  [ n |-> 0, script |-> "none", returned |-> TRUE, added |-> {},
    backfilled |-> FALSE, committed |-> FALSE, fault |-> "none" ]

\* ------------------------------------------------------------------ state
VARIABLES
  docs,     \* committed SOInvoiceDocument rows: id -> row, or NoDoc
  items,    \* committed SOInvoiceItem rows of each document, in insert order
  series_cache, \* committed SOSeries rows, in insert order
  last,     \* the last request and its response
  calls,    \* number of requests served
  inflight, \* the request each worker is serving, when requests overlap
  table,    \* serial_item_transfer_items: column definitions, indexes, rows
  run       \* the last run of a migration script

vars == <<docs, items, series_cache, last, calls, inflight, table, run>>

\* what the handlers leave alone when each request is served in one step
others == <<inflight, table, run>>

\* the workflow handlers do not touch the table of the migration scripts
migration == <<table, run>>

NoDoc == [exists |-> FALSE]

Exists(d) == d \in DocIds /\ docs[d].exists

\* document.items (relationship SOInvoiceDocument -> SOInvoiceItem)
DocumentItems(d) == items[d]

\* status of a new SOInvoiceDocument row
DefaultStatus == "draft"

\* SOInvoiceDocument(document_number=..., user_id=current_user.id, comments=...)
NewDocument(d, u) ==
  [ exists |-> TRUE, id |-> d, user_id |-> u, status |-> DefaultStatus,
    so_series |-> None, so_series_name |-> None, so_number |-> None,
    so_doc_entry |-> None, card_code |-> None, card_name |-> None,
    customer_address |-> None,
    sap_invoice_number |-> NoText, posting_error |-> NoText ]

\* the request/response record of one call: the request (op, doc, user, the
\* bodies), what the gateway did in it (login, erp, DocNum; remote: a request
\* was sent to the ERP; hits: the value list of a 200 answer was empty or
\* not), the response (http, success, error and the payload fields), and
\* again: the request repeats the preceding, successful, request; fault: the
\* statement of the handler at which the persistence layer raised, if any
Response(op, d, u, http, ok) ==
  [ op |-> op, doc |-> d, user |-> u, http |-> http, success |-> ok,
    login |-> "none", erp |-> "none", DocNum |-> 0, remote |-> FALSE,
    error |-> NoText, sap_doc_num |-> NoText,
    so_details |-> NoJson, series_info |-> NoJson,
    again |-> FALSE,
    body |-> [absent |-> TRUE], hits |-> "none", offline_mode |-> FALSE,
    series |-> << >>, doc_entry |-> None, order |-> NoJson,
    serial_info |-> NoJson, quantity |-> None,
    fault |-> [at |-> "none", k |-> 0] ]

\* the workers that serve requests
Procs == {1, 2}

\* no answer of the ERP gateway
NoGateway == [login |-> "none", erp |-> "none", DocNum |-> 0, text |-> NoText]

\* a worker that serves no request
Idle == [ pc |-> "idle", op |-> "none", doc |-> 0, user |-> 0,
          gw |-> NoGateway, rows |-> << >> ]

Init ==
  /\ docs = [d \in DocIds |-> NoDoc]
  /\ items = [d \in DocIds |-> << >>]
  /\ series_cache = << >>
  /\ last = Response("none", 0, 0, 0, FALSE)
  /\ calls = 0
  /\ inflight = [p \in Procs |-> Idle]
  /\ table = BaseTable
  /\ run = NoRun

\* ------------------------------------------------------------------ create
\* POST /create: a new document owned by the current user, committed
Create(u) ==
  /\ calls < MaxCalls
  /\ \E d \in DocIds :
       /\ ~docs[d].exists
       /\ \A e \in DocIds : e < d => docs[e].exists
       /\ docs' = [docs EXCEPT ![d] = NewDocument(d, u)]
       /\ last' = Response("create", d, u, 302, TRUE)
  /\ calls' = calls + 1
  /\ UNCHANGED others
  /\ UNCHANGED <<items, series_cache>>

\* -------------------------------------------------------- save_so_details
\* mutant: the save also clears the posting error
SavedDocument_ClearsError(document, so_details, series_info) ==
  [ document EXCEPT
      !.so_series = series_info.series,
      !.so_series_name = series_info.series_name,
      !.so_number = so_details.so_number,
      !.so_doc_entry = so_details.doc_entry,
      !.card_code = so_details.order.CardCode,
      !.card_name = so_details.order.CardName,
      !.customer_address = so_details.order.Address,
      !.status = "validated",
      !.posting_error = NoText ]

\* routes.py:589-596: the header fields taken from the request, status validated
SavedDocument(document, so_details, series_info) ==
  [ document EXCEPT
      !.so_series = series_info.series,
      !.so_series_name = series_info.series_name,
      !.so_number = so_details.so_number,
      !.so_doc_entry = so_details.doc_entry,
      !.card_code = so_details.order.CardCode,
      !.card_name = so_details.order.CardName,
      !.customer_address = so_details.order.Address,
      !.status = "validated" ]

\* routes.py:605-613: SOInvoiceItem(...) of one DocumentLines entry
NewItem(line) ==
  [ line_num |-> line.LineNum, item_code |-> line.ItemCode,
    item_description |-> line.ItemDescription, so_quantity |-> line.Quantity,
    warehouse_code |-> line.WarehouseCode, validated_quantity |-> 0 ]

\* mutant: the delete of the existing rows is left out
DeleteItems_Skipped(rows) == rows

\* routes.py:599: SOInvoiceItem.query.filter_by(so_invoice_id=doc_id).delete()
DeleteItems(rows) == << >>

\* routes.py:599-614: delete the document's rows, add one row per line
ReplacedItems(rows, so_details) ==
  LET document_lines == so_details.order.DocumentLines
  IN  DeleteItems(rows) \o [i \in 1..Len(document_lines) |-> NewItem(document_lines[i])]

\* POST /api/save-so-details: doc_id 0 is an absent doc_id; so and si are the
\* so_details and series_info of the body, NoJson when absent
SaveSoDetails(u, doc_id, so, si) ==
  /\ calls < MaxCalls
  /\ calls' = calls + 1
  /\ UNCHANGED others
  /\ UNCHANGED series_cache
  /\ LET req == [Response("save", doc_id, u, 200, TRUE) EXCEPT
                   !.so_details = so, !.series_info = si,
                   !.again = (last.op = "save" /\ last.success /\ last.doc = doc_id
                              /\ last.so_details = so /\ last.series_info = si)]
     IN
     IF doc_id = 0 \/ so = NoJson \/ si = NoJson
     THEN \* routes.py:580-584
          /\ last' = [req EXCEPT !.http = 400, !.success = FALSE,
                                 !.error = <<"Missing required data">>]
          /\ UNCHANGED <<docs, items>>
     ELSE IF ~Exists(doc_id)
     THEN \* routes.py:586 get_or_404 raises, caught at 623-629: rollback
          /\ last' = [req EXCEPT !.http = 500, !.success = FALSE,
                                 !.error = <<"404 Not Found">>]
          /\ UNCHANGED <<docs, items>>
     ELSE \* routes.py:588-621
          LET so_details == CHOOSE x \in so : TRUE
              series_info == CHOOSE x \in si : TRUE
          IN  /\ docs' = [docs EXCEPT ![doc_id] =
                            SavedDocument(docs[doc_id], so_details, series_info)]
              /\ items' = [items EXCEPT ![doc_id] =
                            ReplacedItems(items[doc_id], so_details)]
              /\ last' = req

\* ------------------------------------------------------------ post_invoice
\* what the ERP gateway does in one post_invoice call: login cannot be
\* ensured; the POST is answered with a status (and DocNum or error text);
\* or the POST raises (msg is str(e), "" for a bare exception)
GatewayRuns ==
  { [login |-> "down", erp |-> "none", DocNum |-> 0, text |-> NoText] }
  \cup { [login |-> "ok", erp |-> "200", DocNum |-> 7, text |-> NoText],
         [login |-> "ok", erp |-> "201", DocNum |-> 1042, text |-> NoText] }
  \cup { [login |-> "ok", erp |-> "400", DocNum |-> 0, text |-> <<"Invalid item">>],
         [login |-> "ok", erp |-> "500", DocNum |-> 0, text |-> NoText] }
  \cup { [login |-> "ok", erp |-> "raise", DocNum |-> 0, text |-> <<"Read timed out">>],
         [login |-> "ok", erp |-> "raise", DocNum |-> 0, text |-> NoText] }

\* routes.py:509: response.status_code in [200, 201]
SuccessCodes == {"200", "201"}

\* routes.py:455: the permission check
AccessDenied(u, document) ==
  RoleOf(u) \notin PrivilegedRoles /\ document.user_id /= u

\* mutant: the line-item check is left out
HasNoItems_Never(d) == FALSE

\* routes.py:462: if not document.items
HasNoItems(d) == DocumentItems(d) = << >>

\* routes.py:526: f"SAP B1 error: {response.status_code} - {response.text}"
SapErrorMsg(code, text) == <<"SAP B1 error: ", code, " - ">> \o text

\* mutant: the message is str(e) alone
ExceptionMsg_Bare(text) == text

\* routes.py:537: f"Error posting to SAP B1: {str(e)}"
ExceptionMsg(text) == <<"Error posting to SAP B1: ">> \o text

\* mutant: the id is formatted without zero padding
OfflineNumber_Unpadded(id) == <<"I", "N", "V">> \o Str(id)

\* routes.py:549: f"INV{document.id:06d}"
OfflineNumber(id) == <<"I", "N", "V">> \o Format06d(id)

\* mutant: the status assignment is left out
PostedDocument_NoStatus(document, sap_doc_num) ==
  [document EXCEPT !.sap_invoice_number = Str(sap_doc_num)]

\* routes.py:514-515
PostedDocument(document, sap_doc_num) ==
  [document EXCEPT !.sap_invoice_number = Str(sap_doc_num), !.status = "posted"]

\* mutant: the status assignment is left out
RejectedDocument_NoStatus(document, code, text) ==
  [document EXCEPT !.posting_error = SapErrorMsg(code, text)]

\* routes.py:526-528
RejectedDocument(document, code, text) ==
  [document EXCEPT !.posting_error = SapErrorMsg(code, text), !.status = "failed"]

\* routes.py:537-539
ExceptionDocument(document, text) ==
  [document EXCEPT !.posting_error = ExceptionMsg(text), !.status = "failed"]

\* routes.py:549-550
OfflineDocument(document, id) ==
  [document EXCEPT !.sap_invoice_number = OfflineNumber(id), !.status = "posted"]

\* POST /api/post-invoice: doc_id 0 is an absent doc_id
PostInvoice(u, doc_id) ==
  /\ calls < MaxCalls
  /\ calls' = calls + 1
  /\ UNCHANGED others
  /\ UNCHANGED <<items, series_cache>>
  /\ LET req == Response("post", doc_id, u, 200, TRUE)
         refuse(http, msg) ==
           /\ last' = [req EXCEPT !.http = http, !.success = FALSE, !.error = msg]
           /\ UNCHANGED docs
     IN
     IF doc_id = 0 THEN refuse(400, <<"Document ID is required">>)
     ELSE IF ~Exists(doc_id) THEN refuse(500, <<"404 Not Found">>)
     ELSE IF AccessDenied(u, docs[doc_id]) THEN refuse(403, <<"Access denied">>)
     ELSE IF HasNoItems(doc_id)
          THEN refuse(400, <<"Cannot post invoice without line items">>)
     ELSE \E gw \in GatewayRuns :
       LET document == docs[doc_id]
           tried == [req EXCEPT !.login = gw.login, !.erp = gw.erp,
                                !.DocNum = gw.DocNum,
                                !.remote = (gw.login = "ok")]
       IN
       IF gw.login = "ok" /\ gw.erp \in SuccessCodes
       THEN \* routes.py:509-524
            /\ docs' = [docs EXCEPT ![doc_id] = PostedDocument(document, gw.DocNum)]
            /\ last' = [tried EXCEPT !.sap_doc_num = Str(gw.DocNum)]
       ELSE IF gw.login = "ok" /\ gw.erp = "raise"
       THEN \* routes.py:536-546
            /\ docs' = [docs EXCEPT ![doc_id] = ExceptionDocument(document, gw.text)]
            /\ last' = [tried EXCEPT !.http = 500, !.success = FALSE,
                                     !.error = ExceptionMsg(gw.text)]
       ELSE IF gw.login = "ok"
       THEN \* routes.py:525-534
            /\ docs' = [docs EXCEPT ![doc_id] = RejectedDocument(document, gw.erp, gw.text)]
            /\ last' = [tried EXCEPT !.http = 400, !.success = FALSE,
                                     !.error = SapErrorMsg(gw.erp, gw.text)]
       ELSE \* routes.py:548-559 offline mode
            /\ docs' = [docs EXCEPT ![doc_id] = OfflineDocument(document, document.id)]
            /\ last' = [tried EXCEPT !.sap_doc_num = OfflineNumber(document.id)]

\* ----------------------------------------------------------- get_so_series
\* the 'value' list of a 200 answer of Get_SO_Series: the usual two series; a
\* list that renames series 11 and names series 173 twice; an empty list
RemoteSeriesLists ==
  { << [Series |-> "11", SeriesName |-> "Primary"],
       [Series |-> "243", SeriesName |-> "SO2526"] >>,
    << [Series |-> "11", SeriesName |-> "Renamed"],
       [Series |-> "173", SeriesName |-> "SO AVS23"],
       [Series |-> "173", SeriesName |-> "Duplicate"] >>,
    << >> }

\* what the ERP gateway does in one get_so_series call
SeriesRuns ==
  { [login |-> "down", erp |-> "none", value |-> << >>],
    [login |-> "ok", erp |-> "500", value |-> << >>],
    [login |-> "ok", erp |-> "raise", value |-> << >>] }
  \cup { [login |-> "ok", erp |-> "200", value |-> l] : l \in RemoteSeriesLists }

\* routes.py:187-191: the series of offline mode
MockSeries ==
  << [Series |-> "11", SeriesName |-> "Primary"],
     [Series |-> "243", SeriesName |-> "SO2526"],
     [Series |-> "173", SeriesName |-> "SO AVS23"] >>

\* routes.py:156: SOSeries.query.filter_by(series=...).first()
ExistingSeries(cache, code) == \E i \in 1..Len(cache) : cache[i].series = code

\* mutant: an existing row takes the name the ERP returned
CacheOne_Update(cache, series_data) ==
  IF \E i \in 1..Len(cache) : cache[i].series = series_data.Series
  THEN [i \in 1..Len(cache) |->
          IF cache[i].series = series_data.Series
          THEN [cache[i] EXCEPT !.series_name = series_data.SeriesName]
          ELSE cache[i]]
  ELSE Append(cache, [series |-> series_data.Series,
                      series_name |-> series_data.SeriesName])

\* routes.py:156-162: one round of the caching loop (the query flushes the
\* rows added before it: the session autoflushes)
CacheOne(cache, series_data) ==
  IF ExistingSeries(cache, series_data.Series) THEN cache
  ELSE Append(cache, [series |-> series_data.Series,
                      series_name |-> series_data.SeriesName])

RECURSIVE CacheAll(_, _)
\* routes.py:155-164: the caching loop over series_list
CacheAll(cache, series_list) ==
  IF series_list = << >> THEN cache
  ELSE CacheAll(CacheOne(cache, Head(series_list)), Tail(series_list))

\* mutant: the cache is not read
FallbackSeries_MockOnly(cache) == MockSeries

\* routes.py:176-192: cached rows when there are any, else the mock series
FallbackSeries(cache) ==
  IF cache /= << >>
  THEN [i \in 1..Len(cache) |->
          [Series |-> cache[i].series, SeriesName |-> cache[i].series_name]]
  ELSE MockSeries

\* GET /api/get-so-series
GetSoSeries ==
  /\ calls < MaxCalls
  /\ calls' = calls + 1
  /\ UNCHANGED others
  /\ UNCHANGED <<docs, items>>
  /\ \E gw \in SeriesRuns :
       LET req == [Response("series", 0, 0, 200, TRUE) EXCEPT
                     !.login = gw.login, !.erp = gw.erp,
                     !.remote = (gw.login = "ok"),
                     !.body = [value |-> gw.value]]
       IN
       IF gw.login = "ok" /\ gw.erp = "200"
       THEN \* routes.py:150-170
            /\ series_cache' = CacheAll(series_cache, gw.value)
            /\ last' = [req EXCEPT !.series = gw.value]
       ELSE \* routes.py:172-192
            /\ series_cache' = series_cache
            /\ last' = [req EXCEPT !.series = FallbackSeries(series_cache)]

\* ------------------------------------------------------ the lookup steps
\* what the ERP gateway does in one lookup: login cannot be ensured; the
\* request is answered 200 with a non-empty or an empty value list; it is
\* answered with another status; or it raises (a timeout included)
LookupRuns ==
  { [login |-> "down", erp |-> "none", hits |-> "none"],
    [login |-> "ok", erp |-> "200", hits |-> "some"],
    [login |-> "ok", erp |-> "200", hits |-> "empty"],
    [login |-> "ok", erp |-> "500", hits |-> "none"],
    [login |-> "ok", erp |-> "raise", hits |-> "none"] }

\* the gateway part of a lookup's record
Looked(req, gw) ==
  [req EXCEPT !.login = gw.login, !.erp = gw.erp, !.hits = gw.hits,
              !.remote = (gw.login = "ok")]

\* mutant: an empty value list is not answered from, it falls through
Answered_NonEmpty(gw) == gw.login = "ok" /\ gw.erp = "200" /\ gw.hits = "some"

\* a 200 answer was received: the step answers from it
Answered(gw) == gw.login = "ok" /\ gw.erp = "200"

\* `not x` of a request field: absent (None) or empty
Missing(x) == x = None \/ x = ""

\* ---- validate_so_number
ValidateBodies ==
  { [so_number |-> "SO-100", series |-> "11"],
    [so_number |-> None, series |-> "11"],
    [so_number |-> "SO-100", series |-> None] }

\* the DocEntry of the first row the ERP returns for a known order
RemoteDocEntry == "77"

\* mutant: offline mode answers the entry id of another order
MockDocEntry_Other == "1249"

\* routes.py:252: the doc_entry of offline mode
MockDocEntry == "1248"

\* POST /api/validate-so-number
ValidateSoNumber(body) ==
  /\ calls < MaxCalls
  /\ calls' = calls + 1
  /\ UNCHANGED others
  /\ UNCHANGED <<docs, items, series_cache>>
  /\ LET req == [Response("validate_so", 0, 0, 200, TRUE) EXCEPT !.body = body]
     IN
     IF Missing(body.so_number) \/ Missing(body.series)
     THEN \* routes.py:212-216
          last' = [req EXCEPT !.http = 400, !.success = FALSE,
                              !.error = <<"SO Number and Series are required">>]
     ELSE \E gw \in LookupRuns :
       IF Answered(gw)
       THEN IF gw.hits = "some"
            THEN \* routes.py:233-239
                 last' = [Looked(req, gw) EXCEPT !.doc_entry = RemoteDocEntry]
            ELSE \* routes.py:240-244
                 last' = [Looked(req, gw) EXCEPT !.http = 404, !.success = FALSE,
                            !.error = <<"SO Number ", body.so_number,
                                        " not found in Series ", body.series>>]
       ELSE \* routes.py:249-254
            last' = [Looked(req, gw) EXCEPT !.doc_entry = MockDocEntry,
                                            !.offline_mode = TRUE]

\* ---- fetch_so_details
FetchBodies == { [doc_entry |-> "1248"], [doc_entry |-> "31"], [doc_entry |-> None] }

\* the order the ERP returns for a DocEntry
RemoteOrder(doc_entry) ==
  [ DocEntry |-> doc_entry, CardCode |-> "C20000", CardName |-> "Norm Thompson",
    Address |-> "Main St 1",
    DocumentLines |-> << [LineNum |-> "0", ItemCode |-> "A00001",
                          ItemDescription |-> "Printer", Quantity |-> "3",
                          WarehouseCode |-> "01"] >> ]

\* POST /api/fetch-so-details
FetchSoDetails(body) ==
  /\ calls < MaxCalls
  /\ calls' = calls + 1
  /\ UNCHANGED others
  /\ UNCHANGED <<docs, items, series_cache>>
  /\ LET req == [Response("fetch_so", 0, 0, 200, TRUE) EXCEPT !.body = body]
     IN
     IF Missing(body.doc_entry)
     THEN \* routes.py:273-277
          last' = [req EXCEPT !.http = 400, !.success = FALSE,
                              !.error = <<"DocEntry is required">>]
     ELSE \E gw \in LookupRuns :
       IF Answered(gw)
       THEN IF gw.hits = "some"
            THEN \* routes.py:291-296
                 last' = [Looked(req, gw) EXCEPT !.order = {RemoteOrder(body.doc_entry)}]
            ELSE \* routes.py:297-301
                 last' = [Looked(req, gw) EXCEPT !.http = 404, !.success = FALSE,
                            !.error = <<"SO with DocEntry ", body.doc_entry, " not found">>]
       ELSE \* routes.py:306-334
            last' = [Looked(req, gw) EXCEPT !.order = {MockOrder(body.doc_entry)},
                                            !.offline_mode = TRUE]

\* ---- validate_item
\* bodies of validate-item; an absent item_type or quantity takes the default
ItemBodies ==
  LET b(ic, wc, sn, q, t) ==
        [item_code |-> ic, warehouse_code |-> wc, serial_number |-> sn,
         quantity |-> q, item_type |-> t]
  IN  { b("IPhone", "7000-FG", "SN1", None, "serial"),
        b("IPhone", "7000-FG", "SN1", None, None),
        b("IPhone", "7000-FG", None, None, "serial"),
        b(None, "7000-FG", "SN1", None, "serial"),
        b("IPhone", None, None, "5", "non_serial"),
        b("A00001", "01", None, "5", "non_serial"),
        b("A00001", "01", None, None, "non_serial"),
        b("A00001", "01", "SN1", "5", "batch") }

\* routes.py:354-355: data.get('quantity', 1), data.get('item_type', 'serial')
QuantityOf(body) == IF body.quantity = None THEN "1" ELSE body.quantity
ItemTypeOf(body) == IF body.item_type = None THEN "serial" ELSE body.item_type

\* mutant: the serial value is not checked
IsSerialRequest_Unchecked(body) == ItemTypeOf(body) = "serial"

\* routes.py:365: item_type == 'serial' and serial_number
IsSerialRequest(body) ==
  ItemTypeOf(body) = "serial" /\ ~Missing(body.serial_number)

\* the first row the ERP returns for a known serial
RemoteSerialInfo(body) ==
  [ DistNumber |-> body.serial_number, ItemCode |-> body.item_code,
    WhsCode |-> body.warehouse_code, Status |-> "available" ]

\* routes.py:402-406: the serial_info of offline mode
MockSerialInfo(body) ==
  [ DistNumber |-> body.serial_number, ItemCode |-> body.item_code,
    WhsCode |-> body.warehouse_code ]

\* mutant: a validated non-serial quantity is stored on the matching rows
ItemsAfterValidation_Stored(rows, body) ==
  [i \in 1..Len(rows) |->
     IF rows[i].item_code = body.item_code /\ ItemTypeOf(body) = "non_serial"
     THEN [rows[i] EXCEPT !.validated_quantity = 1] ELSE rows[i]]

\* routes.py:345-434: validate_item reads no row and writes none (the handler
\* names neither SOInvoiceItem nor db.session)
ItemsAfterValidation(rows, body) == rows

\* POST /api/validate-item
ValidateItem(body) ==
  /\ calls < MaxCalls
  /\ calls' = calls + 1
  /\ UNCHANGED others
  /\ UNCHANGED <<docs, series_cache>>
  /\ items' = [d \in DocIds |-> ItemsAfterValidation(items[d], body)]
  /\ LET req == [Response("validate_item", 0, 0, 200, TRUE) EXCEPT !.body = body]
     IN
     IF Missing(body.item_code) \/ Missing(body.warehouse_code)
     THEN \* routes.py:357-361
          last' = [req EXCEPT !.http = 400, !.success = FALSE,
                              !.error = <<"ItemCode and WarehouseCode are required">>]
     ELSE IF IsSerialRequest(body)
     THEN \E gw \in LookupRuns :
       IF Answered(gw)
       THEN IF gw.hits = "some"
            THEN \* routes.py:379-387
                 last' = [Looked(req, gw) EXCEPT !.serial_info = {RemoteSerialInfo(body)}]
            ELSE \* routes.py:388-392: the return names no status, so 200
                 last' = [Looked(req, gw) EXCEPT !.http = 200,
                            !.success = FALSE,
                            !.error = <<"Serial ", body.serial_number,
                                        " not found for item ", body.item_code,
                                        " in warehouse ", body.warehouse_code>>]
       ELSE \* routes.py:397-409
            last' = [Looked(req, gw) EXCEPT !.serial_info = {MockSerialInfo(body)},
                                            !.offline_mode = TRUE]
     ELSE IF ItemTypeOf(body) = "non_serial"
     THEN \* routes.py:411-421
          last' = [req EXCEPT !.quantity = QuantityOf(body)]
     ELSE \* routes.py:423-427
          last' = [req EXCEPT !.http = 400, !.success = FALSE,
                     !.error = <<"Invalid item type or missing required fields">>]

\* ------------------------------------------------------------------ requests
\* bodies of save-so-details: every snapshot with a series, and requests with
\* doc_id, so_details or series_info absent
SaveBodies ==
  LET s11 == CHOOSE x \in SeriesInfos : x.series = "11"
      s243 == CHOOSE x \in SeriesInfos : x.series = "243"
      so(n) == CHOOSE x \in Snapshots : x.so_number = n
  IN  { [so_details |-> {so("SO-100")}, series_info |-> {s11}],
        [so_details |-> {so("SO-100")}, series_info |-> {s243}],
        [so_details |-> {so("SO-7")}, series_info |-> {s243}],
        [so_details |-> {so("SO-9")}, series_info |-> {s11}] }

SaveRequests ==
  { [doc_id |-> d, so_details |-> b.so_details, series_info |-> b.series_info] :
      d \in DocIds, b \in SaveBodies }
  \cup { [doc_id |-> 0, so_details |-> b.so_details, series_info |-> b.series_info] :
           b \in {x \in SaveBodies : x.series_info \subseteq {y \in SeriesInfos : y.series = "243"}} }
  \cup { [doc_id |-> 1, so_details |-> NoJson, series_info |-> si] :
           si \in {{x} : x \in SeriesInfos} }
  \cup { [doc_id |-> 1, so_details |-> {so}, series_info |-> NoJson] :
           so \in {x \in Snapshots : x.so_number = "SO-100"} }

Next ==
  \/ \E u \in Users : Create(u)
  \/ \E u \in Users, r \in SaveRequests :
       SaveSoDetails(u, r.doc_id, r.so_details, r.series_info)
  \/ \E u \in Users, d \in 0..MaxDocs : PostInvoice(u, d)
  \/ GetSoSeries
  \/ \E body \in ValidateBodies : ValidateSoNumber(body)
  \/ \E body \in FetchBodies : FetchSoDetails(body)
  \/ \E body \in ItemBodies : ValidateItem(body)

Spec == Init /\ [][Next]_vars

\* ------------------------------------------------- persistence failures
\* In SpecFault the persistence layer can raise inside a handler.  A
\* handler's writes go to its session; the rows of the state are the
\* committed ones, changed only by a commit that succeeds.

\* mutant: the handler commits what the session holds instead of rolling back
Rollback_Commits(committed, session) == session

\* routes.py:624: db.session.rollback() drops what the session holds
Rollback(committed, session) == committed

\* where save_so_details can raise after get_or_404: at the delete (599,
\* which first flushes the header), at the k-th line of the loop (604-614,
\* k - 1 rows added), at the commit (616)
SaveFaults(so_details) ==
  { [at |-> "delete", k |-> 0], [at |-> "commit", k |-> 0] }
  \cup { [at |-> "line", k |-> k] : k \in 1..Len(so_details.order.DocumentLines) }

\* routes.py:599-614: the rows the session holds when the handler raises
SessionItems(rows, so_details, fault) ==
  CASE fault.at = "delete" -> rows
    [] fault.at = "line" ->
         SubSeq(ReplacedItems(rows, so_details), 1, fault.k - 1)
    [] OTHER -> ReplacedItems(rows, so_details)

\* POST /api/save-so-details, raising after get_or_404: routes.py:623-629
SaveSoDetailsFailing(u, doc_id, so, si) ==
  /\ calls < MaxCalls
  /\ calls' = calls + 1
  /\ UNCHANGED others
  /\ UNCHANGED series_cache
  /\ doc_id /= 0 /\ so /= NoJson /\ si /= NoJson /\ Exists(doc_id)
  /\ LET so_details == CHOOSE x \in so : TRUE
         series_info == CHOOSE x \in si : TRUE
     IN  \E fault \in SaveFaults(so_details) :
           /\ docs' = Rollback(docs,
                [docs EXCEPT ![doc_id] =
                   SavedDocument(docs[doc_id], so_details, series_info)])
           /\ items' = Rollback(items,
                [items EXCEPT ![doc_id] =
                   SessionItems(items[doc_id], so_details, fault)])
           /\ last' = [Response("save", doc_id, u, 500, FALSE) EXCEPT
                         !.so_details = so, !.series_info = si,
                         !.error = <<"database error">>, !.fault = fault]

\* where get_so_series can raise: reading the 200 answer (151), in round k of
\* the caching loop or, k past the list, at its commit (155-164), and at the
\* cache query of the fallback (176)
SeriesFaults(gw) ==
  IF gw.login = "ok" /\ gw.erp = "200"
  THEN { [at |-> "parse", k |-> 0] }
       \cup { [at |-> "cache_write", k |-> k] : k \in 1..(Len(gw.value) + 1) }
  ELSE { [at |-> "cache_read", k |-> 0] }

\* GET /api/get-so-series with a failure.  One raised at 151-164 is caught at
\* 172 and the fallback runs; its query sees the committed rows and the rows
\* the loop had flushed, or raises too when the session cannot be used.  A
\* failure of the query at 176 is caught at 194: the answer is a 500.
GetSoSeriesFailing ==
  /\ calls < MaxCalls
  /\ calls' = calls + 1
  /\ UNCHANGED others
  /\ UNCHANGED <<docs, items>>
  /\ \E gw \in SeriesRuns : \E fault \in SeriesFaults(gw) : \E readable \in BOOLEAN :
       LET req == [Response("series", 0, 0, 200, TRUE) EXCEPT
                     !.login = gw.login, !.erp = gw.erp,
                     !.remote = (gw.login = "ok"),
                     !.body = [value |-> gw.value], !.fault = fault]
           session == IF fault.at = "cache_write"
                      THEN CacheAll(series_cache, SubSeq(gw.value, 1, fault.k - 1))
                      ELSE series_cache
       IN  /\ series_cache' = Rollback(series_cache, session)
           /\ IF fault.at = "cache_read" \/ (fault.at = "cache_write" /\ ~readable)
              THEN \* routes.py:194-199
                   last' = [req EXCEPT !.http = 500, !.success = FALSE,
                                       !.error = <<"database error">>]
              ELSE \* routes.py:172-192
                   last' = [req EXCEPT !.series = FallbackSeries(session)]

NextFault ==
  \/ Next
  \/ \E u \in Users, r \in SaveRequests :
       SaveSoDetailsFailing(u, r.doc_id, r.so_details, r.series_info)
  \/ GetSoSeriesFailing

SpecFault == Init /\ [][NextFault]_vars

\* ------------------------------------------- the workflow, gateway down
\* In SpecOffline the ERP gateway is unreachable throughout (ensure_logged_in
\* fails in every call) and the caller follows the wizard: it validates
\* order SO-100, fetches the entry id it was answered, saves the order it
\* was answered on a document, and posts that document.

\* a document was created (routes.py:83-111); calls counts the requests
\* served after it
InitOffline ==
  /\ \E u \in Users :
       /\ docs = [d \in DocIds |-> IF d = 1 THEN NewDocument(1, u) ELSE NoDoc]
       /\ last = Response("create", 1, u, 302, TRUE)
  /\ items = [d \in DocIds |-> << >>]
  /\ series_cache = << >>
  /\ calls = 0
  /\ inflight = [p \in Procs |-> Idle]
  /\ table = BaseTable
  /\ run = NoRun

\* ensure_logged_in() is False in the call just served, if it was asked
GatewayDown == last'.login \in {"none", "down"}

OfflineCreate == \E u \in Users : Create(u)

OfflineValidateSoNumber ==
  \E body \in ValidateBodies : ValidateSoNumber(body) /\ GatewayDown

\* the caller passes on the doc_entry of the validate-so-number answer
OfflineFetchSoDetails ==
  /\ last.op = "validate_so" /\ last.success
  /\ FetchSoDetails([doc_entry |-> last.doc_entry]) /\ GatewayDown

\* the caller passes on the order of the fetch-so-details answer
OfflineSaveSoDetails ==
  /\ last.op = "fetch_so" /\ last.success
  /\ \E u \in Users, doc_id \in DocIds, order \in last.order, si \in SeriesInfos :
       SaveSoDetails(u, doc_id,
                     {[so_number |-> "SO-100", doc_entry |-> last.body.doc_entry,
                       order |-> order]}, {si})

\* the caller posts the document it saved
OfflinePostInvoice ==
  /\ last.op = "save" /\ last.success
  /\ \E u \in Users : PostInvoice(u, last.doc) /\ GatewayDown

NextOffline ==
  \/ OfflineCreate
  \/ OfflineValidateSoNumber
  \/ OfflineFetchSoDetails
  \/ OfflineSaveSoDetails
  \/ OfflinePostInvoice

SpecOffline == InitOffline /\ [][NextOffline]_vars

\* ------------------------------------------------- overlapping requests
\* In SpecConc two workers serve requests at the same time, each with its
\* own database session.  A request runs its checks on the rows committed
\* when it starts and talks to the ERP; its commit is a later step, so
\* another request can start or commit in between.  The UPDATE of a commit
\* sets the columns the handler assigned, on the row as it is then.

\* document 1 was created, and saved with the order of SO-100
InitConc ==
  /\ \E u \in Users :
       LET so == CHOOSE x \in Snapshots : x.so_number = "SO-100"
           si == CHOOSE x \in SeriesInfos : x.series = "11"
       IN  /\ docs = [d \in DocIds |->
                        IF d = 1 THEN SavedDocument(NewDocument(1, u), so, si)
                        ELSE NoDoc]
           /\ items = [d \in DocIds |->
                         IF d = 1 THEN ReplacedItems(<< >>, so) ELSE << >>]
  /\ series_cache = << >>
  /\ last = Response("none", 0, 0, 0, FALSE)
  /\ calls = 0
  /\ inflight = [p \in Procs |-> Idle]
  /\ table = BaseTable
  /\ run = NoRun

\* a worker takes its next request
Free(p) == inflight[p].pc \in {"idle", "done"}

\* POST /api/post-invoice up to the answer of the ERP (routes.py:443-508, and
\* 536 when the POST raises): a refused request is answered at once
PostRequest(p, u, doc_id) ==
  /\ Free(p)
  /\ calls < MaxCalls
  /\ calls' = calls + 1
  /\ UNCHANGED <<docs, items, series_cache, last, migration>>
  /\ IF ~Exists(doc_id) \/ AccessDenied(u, docs[doc_id]) \/ HasNoItems(doc_id)
     THEN inflight' = [inflight EXCEPT ![p] = Idle]
     ELSE \E gw \in GatewayRuns :
            inflight' = [inflight EXCEPT ![p] =
                           [ pc |-> "answered", op |-> "post", doc |-> doc_id,
                             user |-> u, gw |-> gw, rows |-> << >> ]]

\* mutant: a document that is posted already is left as it is
PostOutcome_FirstWins(document, gw) ==
  IF document.status = "posted" THEN document
  ELSE IF gw.login = "ok" /\ gw.erp \in SuccessCodes
  THEN PostedDocument(document, gw.DocNum)
  ELSE IF gw.login = "ok" /\ gw.erp = "raise"
  THEN ExceptionDocument(document, gw.text)
  ELSE IF gw.login = "ok"
  THEN RejectedDocument(document, gw.erp, gw.text)
  ELSE OfflineDocument(document, document.id)

\* routes.py:509-552: what the branch taken on the ERP's answer assigns
PostOutcome(document, gw) ==
  IF gw.login = "ok" /\ gw.erp \in SuccessCodes
  THEN PostedDocument(document, gw.DocNum)
  ELSE IF gw.login = "ok" /\ gw.erp = "raise"
  THEN ExceptionDocument(document, gw.text)
  ELSE IF gw.login = "ok"
  THEN RejectedDocument(document, gw.erp, gw.text)
  ELSE OfflineDocument(document, document.id)

\* routes.py:517, 529, 540, 552: db.session.commit() of a post_invoice
PostCommit(p) ==
  /\ inflight[p].pc = "answered" /\ inflight[p].op = "post"
  /\ LET d == inflight[p].doc
     IN  docs' = [docs EXCEPT ![d] = PostOutcome(docs[d], inflight[p].gw)]
  /\ inflight' = [inflight EXCEPT ![p].pc = "done"]
  /\ UNCHANGED <<items, series_cache, last, calls, migration>>

\* routes.py:155-162: the rows the caching loop adds to its session, given
\* the rows committed when it runs
PendingSeries(cache, series_list) ==
  SubSeq(CacheAll(cache, series_list), Len(cache) + 1,
         Len(CacheAll(cache, series_list)))

\* GET /api/get-so-series up to the commit (routes.py:137-162); a request
\* that falls back to the cache writes nothing and is answered at once
SeriesRequest(p) ==
  /\ Free(p)
  /\ calls < MaxCalls
  /\ calls' = calls + 1
  /\ UNCHANGED <<docs, items, series_cache, last, migration>>
  /\ \E gw \in SeriesRuns :
       IF gw.login = "ok" /\ gw.erp = "200"
       THEN inflight' = [inflight EXCEPT ![p] =
                           [ pc |-> "answered", op |-> "series", doc |-> 0,
                             user |-> 0, gw |-> NoGateway,
                             rows |-> PendingSeries(series_cache, gw.value) ]]
       ELSE inflight' = [inflight EXCEPT ![p] = Idle]

\* routes.py:164: db.session.commit() of a get_so_series: its rows are
\* inserted
SeriesCommit(p) ==
  /\ inflight[p].pc = "answered" /\ inflight[p].op = "series"
  /\ series_cache' = series_cache \o inflight[p].rows
  /\ inflight' = [inflight EXCEPT ![p].pc = "done"]
  /\ UNCHANGED <<docs, items, last, calls, migration>>

NextConc ==
  \/ \E p \in Procs, u \in Users, d \in DocIds : PostRequest(p, u, d)
  \/ \E p \in Procs : PostCommit(p)
  \/ \E p \in Procs : SeriesRequest(p)
  \/ \E p \in Procs : SeriesCommit(p)

SpecConc == InitConc /\ [][NextConc]_vars

\* ------------------------------------------------- the migration scripts
\* One run of a script is one step.  The scripts talk to MySQL: an ALTER
\* TABLE or CREATE INDEX takes effect as it executes and commits the open
\* transaction; the UPDATEs of the backfill belong to the transaction that
\* connection.commit() ends.  In SpecMigrate every statement succeeds unless
\* the table makes it fail; in SpecMigrateFault one statement of a run can
\* raise.

\* the definition a target column is added with
TargetDef(name) ==
  ColumnsToAdd[CHOOSE i \in 1..Len(ColumnsToAdd) : ColumnsToAdd[i].name = name].def

\* rows the table can hold before a run: a serial row, a row without serial,
\* a row with an empty serial and no quantity, each with the new columns at
\* their defaults; and rows the application has worked on since the columns
\* were added
RowKinds ==
  LET fresh == [c \in TargetColumns |-> TargetDef(c).default]
      kind(sn, q, vals) == [serial_number |-> sn, quantity |-> q, vals |-> vals]
  IN  { kind({"SN1"}, {1}, fresh),
        kind(SqlNull, {5}, fresh),
        kind({""}, SqlNull, fresh),
        kind(SqlNull, {5},
             [fresh EXCEPT !["item_type"] = {"non_serial"},
                           !["expected_quantity"] = {5},
                           !["scanned_quantity"] = {3}]),
        kind({"SN1"}, {1},
             [fresh EXCEPT !["is_serial_managed"] = {TRUE}]) }

\* a row of a table that has the target columns in present
RowOf(kind, present) ==
  [ c \in {"serial_number", "quantity"} \cup present |->
      IF c = "serial_number" THEN kind.serial_number
      ELSE IF c = "quantity" THEN kind.quantity
      ELSE kind.vals[c] ]

\* the tables a run can find: any subset of the target columns present,
\* serial_number taking NULL or not, up to MaxRows rows
TablesWith(subsets) ==
  { [ defs |-> [c \in {"serial_number", "quantity"} \cup present |->
                  IF c \in present THEN TargetDef(c) ELSE BaseDefs(serial_null)[c]],
      indexes |-> indexes,
      rows |-> [i \in 1..n |-> RowOf(kinds[i], present)] ] :
      present \in subsets, serial_null \in BOOLEAN, n \in 0..MaxRows,
      kinds \in [1..MaxRows -> RowKinds],
      indexes \in {{}, IndexesOfMigrateDatabase, IndexesOfConsolidated} }

\* a NOT NULL serial_number holds no NULL, and an index needs its columns
WellFormed(t) ==
  /\ ~t.defs["serial_number"].null =>
       \A i \in 1..Len(t.rows) : t.rows[i]["serial_number"] /= SqlNull
  /\ t.indexes /= {} => TargetColumns \subseteq DOMAIN t.defs

InitMigrate ==
  /\ docs = [d \in DocIds |-> NoDoc]
  /\ items = [d \in DocIds |-> << >>]
  /\ series_cache = << >>
  /\ last = Response("none", 0, 0, 0, FALSE)
  /\ calls = 0
  /\ inflight = [p \in Procs |-> Idle]
  /\ table \in {t \in TablesWith(SUBSET TargetColumns) : WellFormed(t)}
  /\ run = NoRun

\* migrate_database.py:57-68: check_column_exists
ColumnExists(t, column_name) == column_name \in DOMAIN t.defs

\* mutant: every target column is taken as missing
ColumnsNeeded_Unchecked(t) == ColumnsToAdd

\* migrate_database.py:100-106, mysql_migration_consolidated.py:117-123
ColumnsNeeded(t) == SelectSeq(ColumnsToAdd, LAMBDA c : ~ColumnExists(t, c.name))

\* mysql_migration_consolidated.py:96-98, 119: a check that raises answers
\* False, so the k-th target column is taken as missing
ColumnsNeededUnless(t, k) ==
  SelectSeq(ColumnsToAdd,
            LAMBDA c : ~ColumnExists(t, c.name) \/ c.name = ColumnsToAdd[k].name)

\* ALTER TABLE ... ADD COLUMN: the rows take the column's default
AddColumn(t, c) ==
  [t EXCEPT !.defs = (c.name :> c.def) @@ t.defs,
            !.rows = [i \in 1..Len(t.rows) |-> (c.name :> c.def.default) @@ t.rows[i]]]

RECURSIVE AddColumns(_, _)
\* migrate_database.py:115-123, mysql_migration_consolidated.py:132-140
AddColumns(t, cols) ==
  IF cols = << >> THEN t ELSE AddColumns(AddColumn(t, Head(cols)), Tail(cols))

\* the first column of cols the table has already, 0 if none: its ADD COLUMN
\* is refused (Duplicate column name)
FirstDuplicate(t, cols) ==
  IF \E i \in 1..Len(cols) : ColumnExists(t, cols[i].name)
  THEN CHOOSE i \in 1..Len(cols) :
         /\ ColumnExists(t, cols[i].name)
         /\ \A j \in 1..(i - 1) : ~ColumnExists(t, cols[j].name)
  ELSE 0

\* migrate_database.py:128, mysql_migration_consolidated.py:148:
\* MODIFY COLUMN serial_number VARCHAR(100) NULL
MakeSerialNumberNullable(t) ==
  [t EXCEPT !.defs["serial_number"] = ColumnDef("VARCHAR(100)", TRUE, {})]

\* serial_number IS NOT NULL AND serial_number != ''
HasSerial(row) == row["serial_number"] /= SqlNull /\ row["serial_number"] /= {""}

\* migrate_database.py:137-152, mysql_migration_consolidated.py:161-177
UpdateSerialRecords(rows) ==
  [ i \in 1..Len(rows) |->
      IF HasSerial(rows[i])
      THEN [rows[i] EXCEPT
              !["is_serial_managed"] = {TRUE},
              !["item_type"] = {"serial"},
              !["expected_quantity"] = {1},
              !["scanned_quantity"] = {IF HasSerial(rows[i]) THEN 1 ELSE 0},
              !["completion_status"] =
                 {IF HasSerial(rows[i]) THEN "completed" ELSE "pending"}]
      ELSE rows[i] ]

\* mutant: the rows without serial keep their completion_status
UpdateNonSerialRecords_KeepsStatus(rows) ==
  [ i \in 1..Len(rows) |->
      IF ~HasSerial(rows[i])
      THEN [rows[i] EXCEPT
              !["is_serial_managed"] = {FALSE},
              !["item_type"] = {"non_serial"},
              !["expected_quantity"] = {Coalesce(rows[i]["quantity"], 1)},
              !["scanned_quantity"] = {Coalesce(rows[i]["quantity"], 1)}]
      ELSE rows[i] ]

\* migrate_database.py:155-164, mysql_migration_consolidated.py:182-192
UpdateNonSerialRecords(rows) ==
  [ i \in 1..Len(rows) |->
      IF ~HasSerial(rows[i])
      THEN [rows[i] EXCEPT
              !["is_serial_managed"] = {FALSE},
              !["item_type"] = {"non_serial"},
              !["expected_quantity"] = {Coalesce(rows[i]["quantity"], 1)},
              !["scanned_quantity"] = {Coalesce(rows[i]["quantity"], 1)},
              !["completion_status"] = {"completed"}]
      ELSE rows[i] ]

\* migrate_database.py:176-184, mysql_migration_consolidated.py:213-223: an
\* index that exists is skipped
CreateIndexes(t, names) == [t EXCEPT !.indexes = t.indexes \cup names]

Scripts == {"migrate_database", "mysql_migration_consolidated"}

IndexesOf(script) ==
  IF script = "migrate_database" THEN IndexesOfMigrateDatabase
  ELSE IndexesOfConsolidated

\* the statement of a run that raises: the k-th column check (add_k is the
\* k-th ADD COLUMN), the MODIFY, an UPDATE of the backfill, the CREATE
\* INDEXes, the commit, the queries after the commit
MigrationFaults(script, t) ==
  { [at |-> "add", k |-> k] : k \in 1..Len(ColumnsNeeded(t)) }
  \cup { [at |-> a, k |-> 0] : a \in {"modify", "backfill", "index", "commit", "verify"} }
  \cup IF script = "mysql_migration_consolidated"
       THEN { [at |-> "check", k |-> k] : k \in 1..Len(ColumnsToAdd) }
       ELSE {}

NoFault == [at |-> "none", k |-> 0]

\* what a run leaves: the table as committed, what run_migration returned,
\* the columns an ADD COLUMN was issued for, whether the backfill ran and
\* whether connection.commit() returned
Outcome(t, returned, added, backfilled, committed) ==
  [ table |-> t, returned |-> returned, added |-> added,
    backfilled |-> backfilled, committed |-> committed ]

\* migrate_database.py:70-208 and mysql_migration_consolidated.py:278-334
MigrationOutcome(script, t, fault) ==
  LET needed == IF fault.at = "check" THEN ColumnsNeededUnless(t, fault.k)
                ELSE ColumnsNeeded(t)
      names(cols) == { cols[i].name : i \in 1..Len(cols) }
      dup == FirstDuplicate(t, needed)
      stop == IF fault.at = "add" /\ fault.k <= Len(needed)
                 /\ (dup = 0 \/ fault.k < dup)
              THEN fault.k ELSE dup
      t1 == AddColumns(t, needed)
      t2 == IF fault.at = "modify" THEN t1 ELSE MakeSerialNumberNullable(t1)
      t3 == [t2 EXCEPT !.rows = UpdateNonSerialRecords(UpdateSerialRecords(t2.rows))]
      t4 == IF fault.at = "index" THEN t3 ELSE CreateIndexes(t3, IndexesOf(script))
  IN  IF script = "migrate_database" /\ needed = << >>
      THEN \* migrate_database.py:108-110
           Outcome(t, TRUE, {}, FALSE, FALSE)
      ELSE IF stop > 0
      THEN \* migrate_database.py:121-123, 199-203;
           \* mysql_migration_consolidated.py:138-140, 294-296
           Outcome(AddColumns(t, SubSeq(needed, 1, stop - 1)), FALSE,
                   names(SubSeq(needed, 1, stop)), FALSE, FALSE)
      ELSE IF fault.at = "backfill"
      THEN \* migrate_database.py:199-203;
           \* mysql_migration_consolidated.py:198-200, 304-306, 331-333
           Outcome(t2, FALSE, names(needed), FALSE, FALSE)
      ELSE IF fault.at = "commit"
      THEN \* migrate_database.py:187, 199-203;
           \* mysql_migration_consolidated.py:314, 325-329
           Outcome(t4, FALSE, names(needed), TRUE, FALSE)
      ELSE IF fault.at = "verify"
      THEN \* migrate_database.py:192, 199-203;
           \* mysql_migration_consolidated.py:318-320
           Outcome(t4, FALSE, names(needed), TRUE, TRUE)
      ELSE Outcome(t4, TRUE, names(needed), TRUE, TRUE)

\* the record of a run
Ran(script, out, fault) ==
  [ n |-> run.n + 1, script |-> script, returned |-> out.returned,
    added |-> out.added, backfilled |-> out.backfilled,
    committed |-> out.committed, fault |-> fault.at ]

\* run_migration() of a script
RunMigration(script) ==
  /\ run.n < MaxRuns
  /\ LET out == MigrationOutcome(script, table, NoFault)
     IN  /\ table' = out.table
         /\ run' = Ran(script, out, NoFault)
  /\ UNCHANGED <<docs, items, series_cache, last, calls, inflight>>

\* run_migration() of a script, one statement raising
RunMigrationFailing(script) ==
  /\ run.n < MaxRuns
  /\ \E fault \in MigrationFaults(script, table) :
       LET out == MigrationOutcome(script, table, fault)
       IN  /\ ~(script = "migrate_database" /\ ColumnsNeeded(table) = << >>)
           /\ table' = out.table
           /\ run' = Ran(script, out, fault)
  /\ UNCHANGED <<docs, items, series_cache, last, calls, inflight>>

NextMigrate ==
  \/ RunMigration("migrate_database")
  \/ RunMigration("mysql_migration_consolidated")

SpecMigrate == InitMigrate /\ [][NextMigrate]_vars

\* the tables of SpecMigrateFault: no target column, the first three, all
PartialSchemas ==
  { {}, {ColumnsToAdd[i].name : i \in 1..3}, TargetColumns }

InitMigrateFault ==
  /\ docs = [d \in DocIds |-> NoDoc]
  /\ items = [d \in DocIds |-> << >>]
  /\ series_cache = << >>
  /\ last = Response("none", 0, 0, 0, FALSE)
  /\ calls = 0
  /\ inflight = [p \in Procs |-> Idle]
  /\ table \in {t \in TablesWith(PartialSchemas) : WellFormed(t)}
  /\ run = NoRun

NextMigrateFault ==
  \/ NextMigrate
  \/ RunMigrationFailing("migrate_database")
  \/ RunMigrationFailing("mysql_migration_consolidated")

SpecMigrateFault == InitMigrateFault /\ [][NextMigrateFault]_vars

\* ================================================================ properties
\* the document a request named, when it exists
LastDoc == docs[last.doc]
IsPost(r) == r.op = "post" /\ Exists(r.doc)
IsDigit(c) == \E i \in 1..10 : DigitChar[i] = c
DigitValue(c) == (CHOOSE i \in 1..10 : DigitChar[i] = c) - 1

RECURSIVE DecimalValue(_)
\* the number a sequence of decimal digits denotes
DecimalValue(t) ==
  IF t = << >> THEN 0
  ELSE 10 * DecimalValue(SubSeq(t, 1, Len(t) - 1)) + DigitValue(t[Len(t)])

AllDigits(t) == \A i \in 1..Len(t) : IsDigit(t[i])

\* C1: post_invoice on a document without line items answers a structured
\* failure, sends nothing to the ERP (not even the login) and leaves the
\* document's status, result identifier and error as they were.
C1_EmptyPostRefused ==
  [][ (IsPost(last') /\ calls' = calls + 1 /\ DocumentItems(last'.doc) = << >>)
      => /\ ~last'.success /\ last'.http \in {400, 403} /\ last'.error /= NoText
         /\ ~last'.remote /\ last'.login = "none"
         /\ docs'[last'.doc].status = docs[last'.doc].status
         /\ docs'[last'.doc].sap_invoice_number = docs[last'.doc].sap_invoice_number
         /\ docs'[last'.doc].posting_error = docs[last'.doc].posting_error ]_vars

\* a fresh document, and a validated one whose order had no lines, were refused
C1_Witness ==
  /\ IsPost(last) /\ DocumentItems(last.doc) = << >>
  /\ last.http = 400 /\ last.error = <<"Cannot post invoice without line items">>
  /\ LastDoc.status = "validated"

\* C2: no request moves a document from posted back to validated or draft,
\* nor from validated back to draft.
C2_StatusMonotonic ==
  [][ \A d \in DocIds : docs[d].exists =>
        /\ docs[d].status = "posted" => docs'[d].status \notin {"validated", "draft"}
        /\ docs[d].status = "validated" => docs'[d].status /= "draft" ]_vars

\* C3: every status change and every remote POST of post_invoice starts from
\* a document whose status is validated or failed.
C3_PostOnlyFromValidatedOrFailed ==
  [][ (IsPost(last') /\ calls' = calls + 1
       /\ (last'.remote \/ docs'[last'.doc].status /= docs[last'.doc].status))
      => docs[last'.doc].status \in {"validated", "failed"} ]_vars

\* C4: when the ERP answers the POST with 200 or 201, the document ends the
\* call posted, its result identifier is the decimal text of the DocNum the
\* ERP assigned, and the caller gets success.
C4_ErpSuccessPosts ==
  (IsPost(last) /\ last.erp \in {"200", "201"})
    => /\ LastDoc.status = "posted"
       /\ AllDigits(LastDoc.sap_invoice_number)
       /\ LastDoc.sap_invoice_number /= NoText
       /\ DecimalValue(LastDoc.sap_invoice_number) = last.DocNum
       /\ last.success /\ last.http = 200
       /\ DecimalValue(last.sap_doc_num) = last.DocNum

C4_Witness ==
  /\ IsPost(last) /\ last.erp = "201" /\ last.DocNum = 1042
  /\ LastDoc.status = "posted"
  /\ LastDoc.sap_invoice_number = <<"1", "0", "4", "2">>

\* C5: when the ERP answers the POST with another status, the document is
\* stored failed with a non-empty error, and the caller gets success=false
\* with that error text and a 4xx status.
C5_ErpRejectionFails ==
  (IsPost(last) /\ last.remote /\ last.erp \notin {"200", "201", "raise"})
    => /\ LastDoc.status = "failed"
       /\ LastDoc.posting_error /= NoText
       /\ ~last.success /\ last.http = 400
       /\ last.error = LastDoc.posting_error

C5_Witness ==
  /\ IsPost(last) /\ last.erp = "500" /\ LastDoc.status = "failed"
  /\ LastDoc.posting_error = <<"SAP B1 error: ", "500", " - ">>

\* C6: when the POST raises (a timeout included), the document is stored
\* failed with a non-empty error and the caller gets a failure.
C6_ErpExceptionFails ==
  (IsPost(last) /\ last.erp = "raise")
    => /\ LastDoc.status = "failed"
       /\ LastDoc.posting_error /= NoText
       /\ ~last.success /\ last.http = 500
       /\ last.error = LastDoc.posting_error

\* the POST raised an exception whose str() is empty
C6_Witness ==
  /\ IsPost(last) /\ last.erp = "raise" /\ LastDoc.status = "failed"
  /\ LastDoc.posting_error = <<"Error posting to SAP B1: ">>

\* C7: a post_invoice rejected by the ERP leaves the document failed with a
\* non-empty error, and a later successful post_invoice makes it posted and
\* clears or overwrites that error.
C7_SuccessClearsError ==
  [][ /\ (IsPost(last') /\ calls' = calls + 1 /\ last'.remote
          /\ last'.erp \notin {"200", "201", "raise"})
        => (docs'[last'.doc].status = "failed"
            /\ docs'[last'.doc].posting_error /= NoText)
      /\ (IsPost(last') /\ calls' = calls + 1 /\ last'.success
          /\ docs[last'.doc].status = "failed"
          /\ docs[last'.doc].posting_error /= NoText)
        => (docs'[last'.doc].status = "posted"
            /\ docs'[last'.doc].posting_error /= docs[last'.doc].posting_error) ]_vars

\* C8: when the login cannot be ensured, post_invoice sends no POST, stores
\* INV followed by the document id zero-padded to six digits, marks the
\* document posted and answers success.
C8_OfflinePost ==
  /\ (IsPost(last) /\ DocumentItems(last.doc) /= << >>
      /\ ~AccessDenied(last.user, LastDoc))
       => last.login \in {"ok", "down"}
  /\ (IsPost(last) /\ last.login = "down")
    => LET n == LastDoc.sap_invoice_number
           tail == SubSeq(n, 4, Len(n))
       IN  /\ ~last.remote
           /\ DocumentItems(last.doc) /= << >>
           /\ Len(n) = 9 /\ SubSeq(n, 1, 3) = <<"I", "N", "V">>
           /\ AllDigits(tail) /\ DecimalValue(tail) = last.doc
           /\ LastDoc.status = "posted"
           /\ last.success /\ last.http = 200 /\ last.sap_doc_num = n

C8_Witness ==
  /\ IsPost(last) /\ last.login = "down" /\ last.doc = 2
  /\ LastDoc.sap_invoice_number = <<"I", "N", "V", "0", "0", "0", "0", "0", "2">>

\* C9: after a successful save_so_details the document's line items are one
\* per line of the snapshot, in its line number, item code, quantity and
\* warehouse, each with validated_quantity 0, none of the earlier rows is
\* left, and the series, source and counterparty fields are the supplied ones.
C9_SaveReplaces ==
  (last.op = "save" /\ last.success)
    => \E so \in last.so_details, si \in last.series_info :
         LET lines == so.order.DocumentLines
             rows == DocumentItems(last.doc)
         IN  /\ Len(rows) = Len(lines)
             /\ \A i \in 1..Len(lines) :
                  /\ rows[i].line_num = lines[i].LineNum
                  /\ rows[i].item_code = lines[i].ItemCode
                  /\ rows[i].so_quantity = lines[i].Quantity
                  /\ rows[i].warehouse_code = lines[i].WarehouseCode
                  /\ rows[i].validated_quantity = 0
             /\ LastDoc.so_series = si.series
             /\ LastDoc.so_series_name = si.series_name
             /\ LastDoc.so_number = so.so_number
             /\ LastDoc.so_doc_entry = so.doc_entry
             /\ LastDoc.card_code = so.order.CardCode
             /\ LastDoc.card_name = so.order.CardName
             /\ LastDoc.customer_address = so.order.Address

\* the one-line order replaced the two lines of an earlier save: the document
\* still carries the result of posting the earlier lines
C9_Witness ==
  /\ last.op = "save" /\ last.success
  /\ LastDoc.so_number = "SO-7" /\ Len(DocumentItems(last.doc)) = 1
  /\ LastDoc.sap_invoice_number /= NoText

\* C10: a save_so_details that repeats the preceding successful one (same
\* document, snapshot and series info) leaves the document's line items and
\* header fields as the first call left them.
C10_SaveIdempotent ==
  [][ (last'.op = "save" /\ last'.success /\ last'.again /\ calls' = calls + 1)
      => /\ last.op = "save" /\ last.success /\ last.doc = last'.doc
         /\ docs'[last'.doc] = docs[last'.doc]
         /\ items'[last'.doc] = items[last'.doc] ]_vars

C10_Witness ==
  /\ last.op = "save" /\ last.success /\ last.again
  /\ Len(DocumentItems(last.doc)) = 2

\* a step that serves a request (every request is counted)
Served == calls' = calls + 1

C13_ResultAndErrorOnlyByPost ==
  [][ \A d \in DocIds :
        /\ (docs[d].exists /\ docs'[d].sap_invoice_number /= docs[d].sap_invoice_number)
             => (last'.op = "post" /\ last'.doc = d /\ docs'[d].status = "posted")
        /\ (docs[d].exists /\ docs'[d].posting_error /= docs[d].posting_error)
             => (last'.op = "post" /\ last'.doc = d /\ docs'[d].status = "failed")
        /\ (~docs[d].exists /\ docs'[d].exists)
             => (docs'[d].sap_invoice_number = NoText /\ docs'[d].posting_error = NoText)
    ]_vars

\* a failed document was saved again and keeps its posting error
C13_Witness ==
  /\ last.op = "save" /\ last.success
  /\ LastDoc.status = "validated" /\ LastDoc.posting_error /= NoText

\* C14: when the remote fetch of get_so_series fails (no login, the call
\* raises, or a status other than 200), the answer carries the cached rows if
\* there are any, else the three built-in series.
C14_SeriesFallback ==
  (last.op = "series" /\ (last.login = "down" \/ last.erp /= "200"))
    => /\ last.success /\ last.http = 200
       /\ IF Len(series_cache) > 0
          THEN /\ Len(last.series) = Len(series_cache)
               /\ \A i \in 1..Len(series_cache) :
                    /\ last.series[i].Series = series_cache[i].series
                    /\ last.series[i].SeriesName = series_cache[i].series_name
          ELSE last.series = << [Series |-> "11", SeriesName |-> "Primary"],
                                [Series |-> "243", SeriesName |-> "SO2526"],
                                [Series |-> "173", SeriesName |-> "SO AVS23"] >>

\* the ERP answered 500 while the cache held rows
C14_Witness ==
  /\ last.op = "series" /\ last.erp = "500" /\ Len(series_cache) = 3
  /\ Len(last.series) = 3 /\ last.series[1].SeriesName = "Renamed"

\* C15: when the remote fetch succeeds, get_so_series adds one row for each
\* returned series code the cache lacks (named as its first occurrence in the
\* list), changes and deletes no earlier row, and answers the remote list as
\* it came.
C15_SeriesCached ==
  [][ (Served /\ last'.op = "series" /\ last'.erp = "200")
      => LET old == series_cache
             new == series_cache'
             list == last'.body.value
             FirstOf(code) == CHOOSE j \in 1..Len(list) :
                                /\ list[j].Series = code
                                /\ \A k \in 1..(j - 1) : list[k].Series /= code
         IN  /\ last'.success /\ last'.series = list
             /\ Len(new) >= Len(old)
             /\ SubSeq(new, 1, Len(old)) = old
             /\ \A i \in (Len(old) + 1)..Len(new) :
                  /\ \A k \in 1..Len(old) : old[k].series /= new[i].series
                  /\ \E j \in 1..Len(list) : list[j].Series = new[i].series
                  /\ new[i].series_name = list[FirstOf(new[i].series)].SeriesName
                  /\ \A k \in (Len(old) + 1)..Len(new) :
                       new[k].series = new[i].series => k = i
             /\ \A j \in 1..Len(list) :
                  \E i \in 1..Len(new) : new[i].series = list[j].Series ]_vars

\* the ERP renamed series 11; the cache keeps the name stored first
C15_Witness ==
  /\ last.op = "series" /\ last.erp = "200"
  /\ Len(last.series) = 3 /\ last.series[1].SeriesName = "Renamed"
  /\ Len(series_cache) = 3 /\ series_cache[1].series_name = "Primary"

\* the three lookups that fall back to mock data
Lookups == {"validate_so", "fetch_so", "validate_item"}

\* a required field of the request is absent, or the item type is not one
\* of the two the step knows
LacksRequiredField(r) ==
  CASE r.op = "validate_so" -> Missing(r.body.so_number) \/ Missing(r.body.series)
    [] r.op = "fetch_so" -> Missing(r.body.doc_entry)
    [] r.op = "validate_item" ->
         \/ Missing(r.body.item_code) \/ Missing(r.body.warehouse_code)
         \/ (r.body.item_type \in {None, "serial"} /\ Missing(r.body.serial_number))
         \/ r.body.item_type \notin {None, "serial", "non_serial"}
    [] r.op = "save" -> r.doc = 0 \/ r.so_details = NoJson \/ r.series_info = NoJson
    [] r.op = "post" -> r.doc = 0
    [] OTHER -> FALSE

\* C17: a request that lacks a required field is answered 400 with
\* success=false before anything is sent to the ERP (not even the login) and
\* without a change to any stored row.
C17_InputErrorsRejected ==
  [][ (Served /\ LacksRequiredField(last'))
      => /\ last'.http = 400 /\ ~last'.success /\ last'.error /= NoText
         /\ last'.login = "none" /\ ~last'.remote
         /\ docs' = docs /\ items' = items /\ series_cache' = series_cache ]_vars

\* a serial validation without a serial value, item and warehouse given
C17_Witness ==
  /\ last.op = "validate_item" /\ last.http = 400
  /\ last.body.item_type = "serial" /\ last.body.serial_number = None
  /\ last.body.item_code = "IPhone" /\ last.body.warehouse_code = "7000-FG"

\* C18: when the ERP answers a lookup 200 with an empty list the step
\* reports a failure and no mock data; mock data is answered only when the
\* login failed or the call did not answer 200.
C18_EmptyIsNotFound ==
  (last.op \in Lookups)
    => /\ (last.erp = "200" /\ last.hits = "empty")
            => /\ ~last.success /\ ~last.offline_mode /\ last.error /= NoText
               /\ last.doc_entry = None /\ last.order = NoJson
               /\ last.serial_info = NoJson
       /\ last.offline_mode
            => (last.login = "down" \/ (last.login = "ok" /\ last.erp \in {"500", "raise"}))

C18_Witness ==
  /\ last.op = "validate_item" /\ last.erp = "200" /\ last.hits = "empty"
  /\ ~last.success /\ last.body.serial_number = "SN1"

\* C19: a lookup whose login fails, whose call raises or times out, or that
\* is answered with a status other than 200, answers success with its
\* offline data: entry id 1248, the two-line mock order carrying the
\* requested entry id, the serial echoed with item and warehouse; and
\* get_so_series answers success.
C19_OfflineFallback ==
  (last.op \in Lookups \cup {"series"} /\ last.login /= "none"
   /\ (last.login = "down" \/ last.erp /= "200"))
    => /\ last.success /\ last.http = 200
       /\ last.op = "validate_so" => last.doc_entry = "1248"
       /\ last.op = "fetch_so" =>
            \E o \in last.order :
              /\ last.order = {o}
              /\ o.DocEntry = last.body.doc_entry
              /\ Len(o.DocumentLines) = 2
              /\ o.DocumentLines[1].ItemCode = "IPhone"
              /\ o.DocumentLines[1].Quantity = "10"
              /\ o.DocumentLines[2].ItemCode = "RedmiNote4"
              /\ o.DocumentLines[2].Quantity = "10"
       /\ last.op = "validate_item" =>
            last.serial_info = {[ DistNumber |-> last.body.serial_number,
                                  ItemCode |-> last.body.item_code,
                                  WhsCode |-> last.body.warehouse_code ]}

\* the call for entry 31 timed out
C19_Witness ==
  /\ last.op = "fetch_so" /\ last.erp = "raise" /\ last.body.doc_entry = "31"
  /\ last.success /\ last.offline_mode

\* the JSON endpoints of the workflow
JsonOps == Lookups \cup {"series", "save", "post"}

C11_SaveAtomic ==
  [][ (Served /\ last'.op = "save")
      => IF last'.success
         THEN \E so \in last'.so_details :
                /\ Len(items'[last'.doc]) = Len(so.order.DocumentLines)
                /\ docs'[last'.doc].so_number = so.so_number
                /\ \A d \in DocIds \ {last'.doc} :
                     docs'[d] = docs[d] /\ items'[d] = items[d]
         ELSE docs' = docs /\ items' = items ]_vars

\* the second line of the two-line order raised after the old row was
\* deleted and one new row was added: the document still has its old row
C11_Witness ==
  /\ last.op = "save" /\ ~last.success /\ last.fault = [at |-> "line", k |-> 2]
  /\ LastDoc.so_number = "SO-7" /\ Len(DocumentItems(last.doc)) = 1
  /\ DocumentItems(last.doc)[1].item_code = "A00001"

\* C16: get_so_series answers success with the remote list, the cached rows
\* or the built-in series whatever fails in the call.
C16_SeriesNeverFails ==
  (last.op = "series") => (last.success /\ last.http = 200)

\* C21: with the gateway unreachable throughout, validate_so_number for
\* SO-100 in series 11 answers entry id 1248, fetch_so_details for that id
\* answers the two lines IPhone and RedmiNote4 of quantity 10, the save of
\* that snapshot leaves exactly two line items with validated_quantity 0 and
\* status validated, and the post leaves the document posted with result id
\* INV followed by the document id zero-padded to six digits.
C21_EndToEndOffline ==
  /\ (last.op = "validate_so" /\ last.body = [so_number |-> "SO-100", series |-> "11"])
       => (last.success /\ last.doc_entry = "1248")
  /\ (last.op = "fetch_so")
       => /\ last.success /\ last.body.doc_entry = "1248"
          /\ \E o \in last.order :
               /\ last.order = {o} /\ Len(o.DocumentLines) = 2
               /\ o.DocumentLines[1].ItemCode = "IPhone"
               /\ o.DocumentLines[1].Quantity = "10"
               /\ o.DocumentLines[2].ItemCode = "RedmiNote4"
               /\ o.DocumentLines[2].Quantity = "10"
  /\ (last.op \in {"save", "post"} /\ last.success)
       => LET rows == DocumentItems(last.doc)
          IN  /\ LastDoc.so_doc_entry = "1248"
              /\ Len(rows) = 2
              /\ rows[1].item_code = "IPhone" /\ rows[1].so_quantity = "10"
              /\ rows[2].item_code = "RedmiNote4" /\ rows[2].so_quantity = "10"
              /\ \A i \in 1..2 : rows[i].validated_quantity = 0
  /\ (last.op = "save" /\ last.success) => LastDoc.status = "validated"
  /\ (last.op = "post" /\ Exists(last.doc) /\ ~AccessDenied(last.user, LastDoc))
       => /\ last.success /\ ~last.remote
          /\ LastDoc.status = "posted"
          /\ LastDoc.sap_invoice_number = <<"I", "N", "V">> \o Format06d(last.doc)
          /\ Len(LastDoc.sap_invoice_number) = 9

\* the fourth call after the create posted document 1
C21_Witness ==
  /\ last.op = "post" /\ last.success /\ last.doc = 1 /\ calls = 4
  /\ LastDoc.status = "posted" /\ LastDoc.so_doc_entry = "1248"
  /\ LastDoc.sap_invoice_number = <<"I", "N", "V", "0", "0", "0", "0", "0", "1">>
  /\ Len(DocumentItems(1)) = 2

C29_SeriesUnique ==
  \A i, j \in 1..Len(series_cache) :
    series_cache[i].series = series_cache[j].series => i = j

\* C25: a request of a user whose role is neither admin nor manager that
\* names a document of another user is refused: post_invoice and
\* save_so_details send nothing to the ERP and leave the document and its
\* line items as they were.
C25_ForeignDocumentProtected ==
  [][ (Served /\ last'.op \in {"save", "post"} /\ ~LacksRequiredField(last')
       /\ Exists(last'.doc) /\ AccessDenied(last'.user, docs[last'.doc]))
      => /\ ~last'.success /\ ~last'.remote /\ last'.login = "none"
         /\ docs' = docs /\ items' = items ]_vars

\* a step that is a run of a migration script
Migrated == run'.n = run.n + 1

\* C23: a run issues ADD COLUMN for exactly the target columns the table
\* lacks, whatever subset it has, ends with all eight present, each added
\* with its definition, and returns True; on a table that has all eight it
\* issues none and returns True.
C23_CheckBeforeAlter ==
  [][ Migrated =>
        LET missing == TargetColumns \ DOMAIN table.defs
        IN  /\ run'.added = missing
            /\ run'.returned
            /\ DOMAIN table'.defs = DOMAIN table.defs \cup TargetColumns
            /\ \A c \in missing : table'.defs[c] = TargetDef(c)
            /\ \A i \in 1..Len(table'.rows) : \A c \in missing :
                 c \notin {"is_serial_managed", "item_type", "expected_quantity",
                           "scanned_quantity", "completion_status"}
                   => table'.rows[i][c] = TargetDef(c).default ]_vars

\* the consolidated script found six of the eight columns and added two
C23_Witness ==
  /\ run.n = 1 /\ run.script = "mysql_migration_consolidated" /\ run.returned
  /\ run.added = {"is_batch_managed", "line_group_id"}
  /\ TargetColumns \subseteq DOMAIN table.defs

\* C24: a run drops no column and leaves the definition of every column the
\* table had before it as it was; the columns it adds take NULL or have a
\* default.
C24_AdditiveOnly ==
  [][ Migrated =>
        /\ \A c \in DOMAIN table.defs :
             c \in DOMAIN table'.defs /\ table'.defs[c] = table.defs[c]
        /\ \A c \in DOMAIN table'.defs \ DOMAIN table.defs :
             table'.defs[c].null \/ table'.defs[c].default /= {} ]_vars

\* C26: a run on a table that a migration has been through (all target
\* columns, serial_number taking NULL, the script's indexes) changes neither
\* the schema nor the item_type, is_serial_managed, expected_quantity,
\* scanned_quantity and completion_status of any row.
C26_RerunChangesNothing ==
  [][ (Migrated /\ TargetColumns \subseteq DOMAIN table.defs
       /\ table.defs["serial_number"].null
       /\ IndexesOf(run'.script) \subseteq table.indexes)
      => /\ table'.defs = table.defs /\ table'.indexes = table.indexes
         /\ Len(table'.rows) = Len(table.rows)
         /\ \A i \in 1..Len(table.rows) :
              \A c \in {"item_type", "is_serial_managed", "expected_quantity",
                        "scanned_quantity", "completion_status"} :
                table'.rows[i][c] = table.rows[i][c] ]_vars

\* C28: after a run that performed the backfill every row with a non-null,
\* non-empty serial_number is serial managed, of type serial, expected and
\* scanned 1; every other row is not serial managed, of type non_serial,
\* expected and scanned its quantity (1 when that is NULL); and every row is
\* completed.
C28_Backfill ==
  run.backfilled =>
    \A i \in 1..Len(table.rows) :
      LET row == table.rows[i]
      IN  /\ row["completion_status"] = {"completed"}
          /\ IF row["serial_number"] /= {} /\ row["serial_number"] /= {""}
             THEN /\ row["is_serial_managed"] = {TRUE}
                  /\ row["item_type"] = {"serial"}
                  /\ row["expected_quantity"] = {1}
                  /\ row["scanned_quantity"] = {1}
             ELSE /\ row["is_serial_managed"] = {FALSE}
                  /\ row["item_type"] = {"non_serial"}
                  /\ row["expected_quantity"] =
                       (IF row["quantity"] = {} THEN {1} ELSE row["quantity"])
                  /\ row["scanned_quantity"] = row["expected_quantity"]

\* migrate_database.py backfilled a row with an empty serial and no quantity
C28_Witness ==
  /\ run.backfilled /\ run.script = "migrate_database" /\ Len(table.rows) = 1
  /\ table.rows[1]["serial_number"] = {""} /\ table.rows[1]["quantity"] = {}
  /\ table.rows[1]["expected_quantity"] = {1}
  /\ table.rows[1]["item_type"] = {"non_serial"}

\* C27: a run that returns False has committed nothing, the table is as it
\* was before the run; and connection.commit() is reached only in a run in
\* which no statement failed.
C27_FailureCommitsNothing ==
  [][ Migrated =>
        /\ ~run'.returned => (table' = table /\ ~run'.committed)
        /\ run'.committed => run'.fault = "none" ]_vars

====
